---- MODULE Spec2Model ----
(***************************************************************************)
(* Model of ai_girlfriend_backend/app.py: the chat proxy chat_with_ollama  *)
(* (payload shaping, the single outbound POST, error translation) and the  *)
(* TTS placeholder generate_tts.                                           *)
(*                                                                         *)
(* ChatIds and TtsIds are the invocations of a run; each is handled once.  *)
(* A chat invocation is a process with two positions: ChatReceive runs     *)
(* lines 85-129 (build the message list and the payload, issue the POST)   *)
(* and leaves the handler blocked in requests.post; ChatComplete is the    *)
(* return of requests.post with the model server's answer followed by      *)
(* lines 130-149.  A TTS invocation has two positions as well, split at    *)
(* its asyncio.sleep.  The handlers take no lock, so the steps of          *)
(* different invocations are interleaved freely in SpecConc; this includes *)
(* every schedule of the single event loop.                                *)
(*                                                                         *)
(* Non-ASCII string literals of the source (the persona prompt and the     *)
(* service-unavailable detail) are written as ASCII tokens: TLA+ strings   *)
(* are ASCII.  Each token stands for the one fixed literal of the source.  *)
(***************************************************************************)
EXTENDS Naturals, Sequences, FiniteSets

VARIABLES config, pc, request, payload, posts, answer, outcome,
          tpc, treq, tresult

vars == <<config, pc, request, payload, posts, answer, outcome,
          tpc, treq, tresult>>

---------------------------------------------------------------------------
(* Bounds of the model *)

MaxHist == 2
NumChat == 2
NumTts == 2

ChatIds == 1..NumChat
TtsIds == 1..NumTts

---------------------------------------------------------------------------
(* Configuration constants, app.py:16-21 *)

OLLAMA_TIMEOUT == 300

SILENT_WAV_BASE64 ==
    "UklGRhoAAABXQVZFZm10IBIAAAABAAEARKwAAIhYAQACABAAFgBtZhdhEAAgYGF0YWRhIAAAAAA="

\* OLLAMA_URL and OLLAMA_MODEL are read from the environment once, at import.
Configs ==
    [OLLAMA_URL : {"http://localhost:11434"},
     OLLAMA_MODEL : {"ai-girlfriend", "llama3"},
     OLLAMA_TIMEOUT : {OLLAMA_TIMEOUT}]

---------------------------------------------------------------------------
(* Request records (the pydantic models) *)

Roles == {"user", "assistant", "system"}
Contents == {"h1", "h2"}
Prompts == {"", "hi"}

\* ChatMessage: role and content are arbitrary strings.
ChatMessage == [role : Roles, content : Contents]

SeqsUpTo(S, n) == UNION {[1..k -> S] : k \in 0..n}

\* ChatRequest: history is Optional; historyIsNone = TRUE models history=None
\* (then the history field holds the empty sequence and is not read).
ChatRequest ==
    [prompt : Prompts, historyIsNone : {FALSE}, history : SeqsUpTo(ChatMessage, MaxHist)]
    \cup [prompt : Prompts, historyIsNone : {TRUE}, history : {<<>>}]

NoRequest == [prompt |-> "", historyIsNone |-> TRUE, history |-> <<>>]

TTSRequest == [text : {"", "hello"}, voice_name : {"Silent", "Kore"}]

NoTTSRequest == [text |-> "", voice_name |-> "Silent"]

---------------------------------------------------------------------------
(* JSON values of the model server's reply.  A value is a record           *)
(* [t, v]: t is its JSON type ("absent" when the key is missing), v the    *)
(* text of a string or number, or the marker of a non-empty array.         *)

Absent == [t |-> "absent", v |-> ""]
JNull == [t |-> "null", v |-> ""]
JStr(s) == [t |-> "str", v |-> s]
JNum(s) == [t |-> "num", v |-> s]

\* Python truthiness of a scalar JSON value (None for an absent key).
ScalarTruthy(x) ==
    CASE x.t = "str" -> x.v # ""
      [] x.t = "num" -> x.v # "0"
      [] x.t = "arr" -> x.v # ""
      [] OTHER -> FALSE

ContentValues == {Absent, JNull, JStr(""), JStr("hello"), JStr("yo"), JNum("5")}

\* The value under "message": a scalar or an object with its "content" and
\* the number of its other keys (an object is truthy when it has any key).
MsgScalar(x) == [t |-> x.t, v |-> x.v, content |-> Absent, others |-> 0]
MsgObj(c, n) == [t |-> "obj", v |-> "", content |-> c, others |-> n]

MessageValues ==
    {MsgScalar(Absent), MsgScalar(JNull), MsgScalar(JStr("")), MsgScalar(JStr("hello")),
     MsgObj(Absent, 0), MsgObj(Absent, 1)}
    \cup {MsgObj(c, 1) : c \in ContentValues \ {Absent}}

\* A response body: not JSON at all, JSON that is no object, or an object.
NoBody == [kind |-> "none", message |-> MsgScalar(Absent)]
Bodies ==
    {[kind |-> "notjson", message |-> MsgScalar(Absent)],
     [kind |-> "array", message |-> MsgScalar(Absent)]}
    \cup {[kind |-> "object", message |-> m] : m \in MessageValues}

Statuses == {200, 201, 300, 404, 503}

\* What requests.post comes back with: an exception of the transport layer,
\* or a response with a status and a body.
TransportFailures == {"ConnectionError", "Timeout", "RequestException"}
Answers ==
    {[t |-> f, status |-> 0, body |-> NoBody] : f \in TransportFailures}
    \cup [t : {"response"}, status : Statuses, body : Bodies]

NoAnswer == [t |-> "none", status |-> 0, body |-> NoBody]

---------------------------------------------------------------------------
(* chat_with_ollama, lines 85-121: the outbound payload *)

system_instruction == "PERSONA_INSTRUCTION"

SystemEntry == [role |-> "system", content |-> system_instruction]

\* Mutant: the list is shared between invocations and never reset.
FreshMessagesShared ==
    IF \E j \in ChatIds : pc[j] # "idle"
    THEN payload[CHOOSE j \in ChatIds : pc[j] # "idle"].messages
    ELSE <<>>

\* Line 85: messages = [], a list local to the invocation.
FreshMessages == <<>>

\* Mutant: every role string is forwarded as it is.
NormalizeRoleIdentity(role) == role

\* Mutant: an unrecognized role becomes "user".
NormalizeRoleToUser(role) ==
    IF role \in {"user", "assistant"} THEN role ELSE "user"

\* Line 108.
NormalizeRole(role) ==
    IF role \in {"user", "assistant"} THEN role ELSE "assistant"

\* Mutant: entries with an unrecognized role are dropped.
HistoryEntriesFiltered(req) ==
    IF ~req.historyIsNone /\ Len(req.history) > 0
    THEN SelectSeq(req.history, LAMBDA e : e.role \in {"user", "assistant"})
    ELSE <<>>

\* Lines 106-109.
HistoryEntries(req) ==
    IF ~req.historyIsNone /\ Len(req.history) > 0
    THEN [k \in 1..Len(req.history) |->
            [role |-> NormalizeRole(req.history[k].role),
             content |-> req.history[k].content]]
    ELSE <<>>

PromptEntry(req) == [role |-> "user", content |-> req.prompt]

\* Mutant: the prompt is appended before the history.
BuildMessagesPromptFirst(messages, req) ==
    ((messages \o <<SystemEntry>>) \o <<PromptEntry(req)>>) \o HistoryEntries(req)

\* Lines 100-112.
BuildMessages(messages, req) ==
    ((messages \o <<SystemEntry>>) \o HistoryEntries(req)) \o <<PromptEntry(req)>>

OllamaPayload(messages) ==
    [model |-> config.OLLAMA_MODEL, messages |-> messages, stream |-> FALSE]

NoPayload == [model |-> "", messages |-> <<>>, stream |-> FALSE]

---------------------------------------------------------------------------
(* chat_with_ollama, lines 124-149: the try body and the except clause *)

EmptyDetail == "Ollama returned an empty response."
UnavailableDetail == "OLLAMA_SERVICE_FAILURE_DETAIL"

Return(value) == [kind |-> "return", exc |-> "", detail |-> "", value |-> value]
Raise(exc, detail) == [kind |-> "raise", exc |-> exc, detail |-> detail, value |-> Absent]

\* response.raise_for_status(): HTTPError for 4xx and 5xx only.
RaisesForStatus(status) == status >= 400 /\ status < 600

\* ollama_response_data.get("message") is truthy.
MessageTruthy(m) ==
    IF m.t = "obj" THEN (m.content.t # "absent" \/ m.others > 0)
    ELSE ScalarTruthy(m)

\* Lines 135-141.  response.json() on a body that is not JSON raises
\* requests.exceptions.JSONDecodeError, a RequestException; .get on a value
\* that is no dict raises AttributeError.
ReadBody(body) ==
    IF body.kind = "notjson" THEN Raise("RequestException", "JSONDecodeError")
    ELSE IF body.kind # "object" THEN Raise("AttributeError", "get")
    ELSE IF ~MessageTruthy(body.message) THEN Raise("HTTPException", EmptyDetail)
    ELSE IF body.message.t # "obj" THEN Raise("AttributeError", "get")
    ELSE IF ScalarTruthy(body.message.content) THEN Return(body.message.content)
    ELSE Raise("HTTPException", EmptyDetail)

\* Lines 125-141.
TryBody(ans) ==
    IF ans.t # "response" THEN Raise("RequestException", ans.t)
    ELSE IF RaisesForStatus(ans.status) THEN Raise("RequestException", "HTTPError")
    ELSE ReadBody(ans.body)

\* Mutant: except Exception.
CaughtAny(r) == r.kind = "raise"

\* except requests.exceptions.RequestException
Caught(r) == r.kind = "raise" /\ r.exc = "RequestException"

\* The whole try statement.
Handle(ans) ==
    IF Caught(TryBody(ans)) THEN Raise("HTTPException", UnavailableDetail)
    ELSE TryBody(ans)

\* What the HTTP caller gets: the returned dict as a 200, an HTTPException as
\* its status and detail, any other exception as the framework's bare 500.
HttpResult(r) ==
    IF r.kind = "return"
    THEN [status |-> 200, detail |-> "", response |-> r.value, fault |-> ""]
    ELSE IF r.exc = "HTTPException"
    THEN [status |-> 500, detail |-> r.detail, response |-> Absent, fault |-> ""]
    ELSE [status |-> 500, detail |-> "Internal Server Error", response |-> Absent,
          fault |-> r.exc]

NoOutcome == [status |-> 0, detail |-> "", response |-> Absent, fault |-> ""]

\* Mutant: a failed attempt is retried.
PostsAgainOnFailure(r) == r.kind = "raise"

\* The handler has no loop around the POST: it never posts again.
PostsAgain(r) == FALSE

---------------------------------------------------------------------------
(* generate_tts, lines 154-161 *)

\* Mutant: no audio for an empty text.
TtsAudioOfText(req) == IF req.text = "" THEN "" ELSE SILENT_WAV_BASE64

TtsAudio(req) == SILENT_WAV_BASE64

NoTtsResult == [status |-> 0, audio_base64 |-> ""]

---------------------------------------------------------------------------
(* State machine *)

Init ==
    /\ config \in Configs
    /\ pc = [i \in ChatIds |-> "idle"]
    /\ request = [i \in ChatIds |-> NoRequest]
    /\ payload = [i \in ChatIds |-> NoPayload]
    /\ posts = [i \in ChatIds |-> 0]
    /\ answer = [i \in ChatIds |-> NoAnswer]
    /\ outcome = [i \in ChatIds |-> NoOutcome]
    /\ tpc = [j \in TtsIds |-> "idle"]
    /\ treq = [j \in TtsIds |-> NoTTSRequest]
    /\ tresult = [j \in TtsIds |-> NoTtsResult]

\* POST /api/chat arrives: lines 85-129, up to the blocking requests.post.
ChatReceive(i, req) ==
    /\ pc[i] = "idle"
    /\ pc' = [pc EXCEPT ![i] = "waiting"]
    /\ request' = [request EXCEPT ![i] = req]
    /\ payload' = [payload EXCEPT ![i] = OllamaPayload(BuildMessages(FreshMessages, req))]
    /\ posts' = [posts EXCEPT ![i] = 1]
    /\ UNCHANGED <<config, answer, outcome, tpc, treq, tresult>>

\* requests.post comes back with ans: lines 130-149.
ChatComplete(i, ans) ==
    /\ pc[i] = "waiting"
    /\ answer' = [answer EXCEPT ![i] = ans]
    /\ IF PostsAgain(Handle(ans))
       THEN /\ posts' = [posts EXCEPT ![i] = @ + 1]
            /\ UNCHANGED <<pc, outcome>>
       ELSE /\ outcome' = [outcome EXCEPT ![i] = HttpResult(Handle(ans))]
            /\ pc' = [pc EXCEPT ![i] = "done"]
            /\ UNCHANGED posts
    /\ UNCHANGED <<config, request, payload, tpc, treq, tresult>>

\* POST /api/tts arrives: the print, then the handler awaits asyncio.sleep.
TtsReceive(j, req) ==
    /\ tpc[j] = "idle"
    /\ tpc' = [tpc EXCEPT ![j] = "sleeping"]
    /\ treq' = [treq EXCEPT ![j] = req]
    /\ UNCHANGED <<config, pc, request, payload, posts, answer, outcome, tresult>>

\* The sleep ends: return TTSResponse(audio_base64=SILENT_WAV_BASE64).
TtsWake(j) ==
    /\ tpc[j] = "sleeping"
    /\ tpc' = [tpc EXCEPT ![j] = "done"]
    /\ tresult' = [tresult EXCEPT ![j] =
                      [status |-> 200, audio_base64 |-> TtsAudio(treq[j])]]
    /\ UNCHANGED <<config, pc, request, payload, posts, answer, outcome, treq>>

\* The requests and answers of the concurrent runs.
ConcRequests ==
    {[prompt |-> "hi", historyIsNone |-> TRUE, history |-> <<>>],
     [prompt |-> "", historyIsNone |-> FALSE,
      history |-> <<[role |-> "system", content |-> "h1"]>>],
     [prompt |-> "hi", historyIsNone |-> FALSE,
      history |-> <<[role |-> "user", content |-> "h2"]>>]}

ConcBodies ==
    {[kind |-> "object", message |-> MsgObj(JStr("hello"), 1)],
     [kind |-> "object", message |-> MsgObj(JStr("yo"), 1)]}

ConcAnswers ==
    {[t |-> "ConnectionError", status |-> 0, body |-> NoBody]}
    \cup [t : {"response"}, status : {200}, body : ConcBodies]

ConcTTSRequests ==
    {[text |-> "", voice_name |-> "Silent"], [text |-> "hello", voice_name |-> "Kore"]}

\* Any number of chat and TTS invocations in flight, interleaved freely.
NextConc ==
    \/ \E i \in ChatIds : \E req \in ConcRequests : ChatReceive(i, req)
    \/ \E i \in ChatIds : \E ans \in ConcAnswers : ChatComplete(i, ans)
    \/ \E j \in TtsIds : \E req \in ConcTTSRequests : TtsReceive(j, req)
    \/ \E j \in TtsIds : TtsWake(j)

SpecConc == Init /\ [][NextConc]_vars

\* One chat and one TTS invocation, over all requests and answers.
Next ==
    \/ \E req \in ChatRequest : ChatReceive(1, req)
    \/ \E ans \in Answers : ChatComplete(1, ans)
    \/ \E req \in TTSRequest : TtsReceive(1, req)
    \/ TtsWake(1)

Spec == Init /\ [][Next]_vars

---------------------------------------------------------------------------
(* The outcome classes of the error taxonomy *)

IsChatReply(o) == o.status = 200 /\ o.fault = ""
IsRemoteUnavailable(o) ==
    o.status = 500 /\ o.detail = UnavailableDetail /\ o.fault = "" /\ o.response = Absent
IsEmptyUpstreamResponse(o) ==
    o.status = 500 /\ o.detail = EmptyDetail /\ o.fault = "" /\ o.response = Absent

Built(i) == pc[i] # "idle"
Done(i) == pc[i] = "done"
Msgs(i) == payload[i].messages
HistLen(req) == IF req.historyIsNone THEN 0 ELSE Len(req.history)
SuccessStatus(status) == status >= 200 /\ status < 300

---------------------------------------------------------------------------
(* Claims *)

\* C1: for every ChatRequest the outbound message sequence has the fixed
\* persona instruction with role "system" as its first entry, and no other
\* entry of the sequence has role "system".
C1_SystemEntryFirstAndOnly ==
    \A i \in ChatIds :
        Built(i) =>
            /\ Len(Msgs(i)) >= 1
            /\ Msgs(i)[1] = [role |-> "system", content |-> system_instruction]
            /\ \A k \in 2..Len(Msgs(i)) : Msgs(i)[k].role # "system"

C1_Witness ==
    \E i \in ChatIds :
        /\ Built(i)
        /\ ~request[i].historyIsNone
        /\ \E k \in 1..Len(request[i].history) : request[i].history[k].role = "system"

\* C2: the history entry at position k is forwarded at position k+1 with its
\* role unchanged when that is exactly "user" or "assistant" and with role
\* "assistant" otherwise; no request is refused for its roles (the handler
\* takes every request, whatever its roles).
C2_RolesNormalized ==
    /\ \A i \in ChatIds :
           Built(i) =>
              \A k \in 1..HistLen(request[i]) :
                  /\ Len(Msgs(i)) >= k + 1
                  /\ Msgs(i)[k + 1].role =
                        (IF request[i].history[k].role = "user" THEN "user"
                         ELSE "assistant")
    /\ ((\A i \in ChatIds : pc[i] = "idle") /\ (\A j \in TtsIds : tpc[j] = "idle"))
          => \A i \in ChatIds : \A req \in ChatRequest : ENABLED ChatReceive(i, req)

C2_Witness ==
    \E i \in ChatIds :
        /\ Built(i)
        /\ HistLen(request[i]) = MaxHist
        /\ request[i].history[1].role = "system"
        /\ request[i].history[MaxHist].role = "user"

\* C3: the last entry of the outbound message sequence is the prompt, with
\* role "user" and the prompt text unchanged, whatever the history.
C3_PromptLast ==
    \A i \in ChatIds :
        Built(i) =>
            /\ Len(Msgs(i)) >= 1
            /\ Msgs(i)[Len(Msgs(i))] = [role |-> "user", content |-> request[i].prompt]

C3_Witness ==
    \E i \in ChatIds :
        /\ Built(i)
        /\ HistLen(request[i]) = MaxHist
        /\ request[i].history[MaxHist].role = "assistant"
        /\ request[i].prompt = "hi"

\* C4: the outbound sequence has len(history) + 2 entries; with an empty or
\* absent history it is exactly the system instruction, then the prompt.
C4_LengthIsHistoryPlusTwo ==
    \A i \in ChatIds :
        Built(i) =>
            /\ Len(Msgs(i)) = HistLen(request[i]) + 2
            /\ HistLen(request[i]) = 0 =>
                  Msgs(i) = <<[role |-> "system", content |-> system_instruction],
                              [role |-> "user", content |-> request[i].prompt]>>

C4_Witness ==
    \E i \in ChatIds :
        Built(i) /\ request[i].historyIsNone /\ Len(Msgs(i)) = 2

\* C5 (as claimed): a transport failure or a non-success (non-2xx) status
\* always ends in RemoteUnavailable.
C5_FailureIsRemoteUnavailable ==
    \A i \in ChatIds :
        (Done(i) /\ (answer[i].t # "response" \/ ~SuccessStatus(answer[i].status)))
            => IsRemoteUnavailable(outcome[i])

\* C6: a success status with a JSON object in which "message" is missing or
\* {} or has no "content" or an empty "content" ends in
\* EmptyUpstreamResponse: a 500 with the empty-response detail, which is not
\* the RemoteUnavailable detail.
EmptyMessageCase(body) ==
    /\ body.kind = "object"
    /\ \/ body.message.t = "absent"
       \/ /\ body.message.t = "obj"
          /\ \/ body.message.content.t = "absent"
             \/ body.message.content = JStr("")

C6_EmptyIsEmptyUpstreamResponse ==
    \A i \in ChatIds :
        (Done(i) /\ answer[i].t = "response" /\ SuccessStatus(answer[i].status)
                 /\ EmptyMessageCase(answer[i].body))
            => /\ outcome[i] = [status |-> 500,
                                detail |-> "Ollama returned an empty response.",
                                response |-> Absent, fault |-> ""]
               /\ ~IsRemoteUnavailable(outcome[i])

C6_Witness ==
    \E i \in ChatIds :
        /\ Done(i)
        /\ answer[i].t = "response" /\ answer[i].status = 200
        /\ answer[i].body = [kind |-> "object", message |-> MsgObj(Absent, 0)]
        /\ IsEmptyUpstreamResponse(outcome[i])

C8_TtsConstant ==
    \A j \in TtsIds :
        /\ tpc[j] = "done" =>
              tresult[j] = [status |-> 200, audio_base64 |-> SILENT_WAV_BASE64]
        /\ tpc[j] = "sleeping" => ENABLED TtsWake(j)

C8_Witness ==
    \E j, k \in TtsIds :
        /\ tpc[j] = "done" /\ tpc[k] = "done"
        /\ treq[j].text = "" /\ treq[k].text = "hello"
        /\ treq[j].voice_name # treq[k].voice_name
        /\ \E i \in ChatIds : Done(i)

\* C9: under every interleaving an invocation's payload is made of its own
\* request only and its outcome of the answer to its own call: equal
\* requests give equal payloads, equal answers equal outcomes; a step of one
\* invocation changes nothing of another; the configuration never changes.
OwnPayload(i) ==
    /\ payload[i].model = config.OLLAMA_MODEL
    /\ Len(Msgs(i)) = HistLen(request[i]) + 2
    /\ Msgs(i)[1].content = system_instruction
    /\ \A k \in 1..HistLen(request[i]) :
           Msgs(i)[k + 1].content = request[i].history[k].content
    /\ Msgs(i)[Len(Msgs(i))].content = request[i].prompt

Isolated ==
    /\ \A i \in ChatIds : Built(i) => OwnPayload(i)
    /\ \A i, j \in ChatIds :
           /\ (Built(i) /\ Built(j) /\ request[i] = request[j])
                 => payload[i] = payload[j]
           /\ (Done(i) /\ Done(j) /\ answer[i] = answer[j])
                 => outcome[i] = outcome[j]

C9_Isolation ==
    [][/\ config' = config
       /\ Isolated'
       /\ \A i \in ChatIds :
              pc'[i] = pc[i] =>
                  /\ request'[i] = request[i]
                  /\ payload'[i] = payload[i]
                  /\ answer'[i] = answer[i]
                  /\ outcome'[i] = outcome[i]]_vars

C9_Witness ==
    \E i, j \in ChatIds :
        /\ i # j
        /\ Done(i) /\ pc[j] = "waiting"
        /\ request[i] # request[j]
        /\ \E k \in TtsIds : tpc[k] = "sleeping"

\* C10 (as claimed): every invocation ends as a ChatReply (only after a
\* success status with a non-empty message.content string, returned
\* unchanged), as RemoteUnavailable or as EmptyUpstreamResponse.
C10_OutcomeClassified ==
    \A i \in ChatIds :
        Done(i) =>
            \/ /\ IsChatReply(outcome[i])
               /\ answer[i].t = "response" /\ SuccessStatus(answer[i].status)
               /\ answer[i].body.kind = "object"
               /\ answer[i].body.message.t = "obj"
               /\ answer[i].body.message.content.t = "str"
               /\ answer[i].body.message.content.v # ""
               /\ outcome[i].response = answer[i].body.message.content
            \/ IsRemoteUnavailable(outcome[i])
            \/ IsEmptyUpstreamResponse(outcome[i])

====
